---- MODULE Spec2Model ----
(***************************************************************************)
(* BERTAdam (ReNER/tools/pytorch_optimization.py): the schedule functions, *)
(* the constructor's validation, the update step and the optimizer         *)
(* factory get_optimization.                                               *)
(*                                                                         *)
(* Numbers.  A Python float or a one-element tensor is an exact rational   *)
(* <<n, d>> in lowest terms with d > 0; d = 0 holds IEEE's special values: *)
(* <<1, 0>> is +inf, <<-1, 0>> is -inf and <<0, 0>> is NaN.  Rounding is   *)
(* not modelled.  Python's None is the empty tuple <<>>.  A parameter is a *)
(* one-element tensor.                                                     *)
(***************************************************************************)
EXTENDS Integers, Sequences, FiniteSets, TLC

VARIABLES
  param_groups,  \* self.param_groups: one record of hyperparameters and 'params' per group
  data,          \* p.data of every parameter
  grad,          \* p.grad of every parameter as the last call left it (<<>>: absent)
  state,         \* self.state[p]: <<>> (no entry) or [step, next_m, next_v]
  calls,         \* number of calls of step() made so far
  result,        \* how the last call of step() ended: "none" before the first call
  lr_used,       \* lr_scheduled of the last call, per parameter (<<>>: not computed)
  seen_grad,     \* per parameter: the completed calls in which it had a gradient
  any_failed,    \* whether some call of step() so far raised an exception
  ctor,          \* BERTAdam.__init__: its arguments and its outcome
  factory        \* get_optimization: its arguments and its outcome

vars == <<param_groups, data, grad, state, calls, result, lr_used, seen_grad, any_failed,
         ctor, factory>>

None == <<>>

(***************************************************************************)
(* Arithmetic                                                              *)
(***************************************************************************)
Abs(n) == IF n < 0 THEN -n ELSE n

Sign(n) == IF n < 0 THEN -1 ELSE IF n > 0 THEN 1 ELSE 0

RECURSIVE Gcd(_, _)
Gcd(a, b) == IF b = 0 THEN a ELSE Gcd(b, a % b)

\* The value n/d in lowest terms; a zero d gives the special value of n's sign.
Norm(n, d) ==
  IF d = 0 THEN <<Sign(n), 0>>
  ELSE LET g == Gcd(Abs(n), Abs(d))
       IN  <<Sign(d) * (n \div g), Abs(d) \div g>>

Q(n, d) == Norm(n, d)
OfInt(n) == <<n, 1>>
Zero == <<0, 1>>
One == <<1, 1>>
NaN == <<0, 0>>
Inf == <<1, 0>>

IsNaN(x) == x = NaN
IsFinite(x) == x[2] # 0

\* IEEE product: inf * 0 and anything with NaN are NaN.
Mul(x, y) == Norm(x[1] * y[1], x[2] * y[2])

\* IEEE sum: inf + (-inf) and anything with NaN are NaN.
Add(x, y) ==
  IF IsFinite(x) /\ IsFinite(y) THEN Norm(x[1] * y[2] + y[1] * x[2], x[2] * y[2])
  ELSE IF IsFinite(y) THEN x
  ELSE IF IsFinite(x) THEN y
  ELSE IF x = y THEN x ELSE NaN

Neg(x) == <<-x[1], x[2]>>
Sub(x, y) == Add(x, Neg(y))

\* IEEE reciprocal and quotient (of tensors: no exception). The zero is +0.
Inv(x) ==
  IF x[1] > 0 THEN <<x[2], x[1]>>
  ELSE IF x[1] < 0 THEN <<-x[2], -x[1]>>
  ELSE IF x[2] # 0 THEN Inf ELSE NaN
Div(x, y) == Mul(x, Inv(y))

\* Comparisons: every comparison with NaN is false.
Lt(x, y) ==
  /\ ~IsNaN(x) /\ ~IsNaN(y)
  /\ IF x[2] = 0 /\ y[2] = 0 THEN x[1] < y[1] ELSE x[1] * y[2] < y[1] * x[2]
Le(x, y) == ~IsNaN(x) /\ ~IsNaN(y) /\ (x = y \/ Lt(x, y))
Gt(x, y) == Lt(y, x)
Ge(x, y) == Le(y, x)

AbsQ(x) == <<Abs(x[1]), x[2]>>

\* The integer square root of a perfect square.
ISqrt(n) == CHOOSE r \in 0..n : r * r = n

\* torch.sqrt of a value whose numerator and denominator are perfect squares
\* (the inputs are chosen so that every second moment is one).
Sqrt(x) ==
  IF ~IsFinite(x) THEN (IF x = Inf THEN Inf ELSE NaN)
  ELSE IF x[1] < 0 THEN NaN
  ELSE <<ISqrt(x[1]), ISqrt(x[2])>>

\* Python's a % b on integers: the result has the sign of b.
PyMod(a, b) == IF b > 0 THEN a % b ELSE -((-a) % (-b))

(***************************************************************************)
(* Python values: a float, None, or a raised exception.                    *)
(***************************************************************************)
Py(v) == [err |-> "", val |-> v]
Raise(e) == [err |-> e, val |-> None]

\* Python's x / y on numbers.
PyDiv(x, y) == IF y = Zero THEN Raise("ZeroDivisionError") ELSE Py(Div(x, y))

\* Python's lr * <multiplier>: the multiplier is evaluated first.
PyMulLr(lr, m) ==
  IF m.err # "" THEN m
  ELSE IF lr = None THEN Raise("TypeError")
  ELSE Py(Mul(lr, m.val))

(***************************************************************************)
(* The schedule functions (x, warmup, step and warmup_step are floats)     *)
(***************************************************************************)
\* torch.cos of a Python float raises TypeError: it takes a tensor.
warmup_cosine(x, warmup) ==
  IF Lt(x, warmup) THEN PyDiv(x, warmup) ELSE Raise("TypeError")

warmup_constant(x, warmup) ==
  IF Lt(x, warmup) THEN PyDiv(x, warmup) ELSE Py(One)

\* warmup_linear without its warmup branch.
warmup_linear_no_warmup(x, warmup) == PyDiv(Sub(One, x), Sub(One, warmup))

warmup_linear(x, warmup) ==
  IF Lt(x, warmup) THEN PyDiv(x, warmup) ELSE PyDiv(Sub(One, x), Sub(One, warmup))

\* min(1.0, v) is v when v < 1.0 and 1.0 otherwise.
PyMin1(v) == IF v.err # "" THEN v ELSE IF Lt(v.val, One) THEN v ELSE Py(One)

warmup_fix(step, warmup_step) == PyMin1(PyDiv(step, warmup_step))

SCHEDULES == {"warmup_cosine", "warmup_constant", "warmup_linear", "warmup_fix"}

schedule_fct(schedule, a, b) ==
  CASE schedule = "warmup_cosine" -> warmup_cosine(a, b)
    [] schedule = "warmup_constant" -> warmup_constant(a, b)
    [] schedule = "warmup_linear" -> warmup_linear(a, b)
    [] schedule = "warmup_fix" -> warmup_fix(a, b)

(***************************************************************************)
(* BERTAdam.__init__                                                       *)
(***************************************************************************)
NoWarmup == -1

\* The checks of __init__ with the warmup range closed at 1.0, as the
\* assertion of get_optimization has it.
InvalidArgument_warmup_closed(a) ==
  IF a.lr # None /\ ~Ge(a.lr, Zero) THEN "Invalid learning rate"
  ELSE IF a.schedule \notin SCHEDULES THEN "Invalid schedule parameter"
  ELSE IF ~(Le(Zero, a.warmup) /\ Le(a.warmup, One)) /\ ~(a.warmup = OfInt(NoWarmup))
       THEN "Invalid warmup"
  ELSE IF ~(Le(Zero, a.b1) /\ Lt(a.b1, One)) THEN "Invalid b1 parameter"
  ELSE IF ~(Le(Zero, a.b2) /\ Lt(a.b2, One)) THEN "Invalid b2 parameter"
  ELSE IF ~Ge(a.e, Zero) THEN "Invalid epsilon value"
  ELSE ""

\* The checks of __init__ in their order: the first that fails raises.
InvalidArgument(a) ==
  IF a.lr # None /\ ~Ge(a.lr, Zero) THEN "Invalid learning rate"
  ELSE IF a.schedule \notin SCHEDULES THEN "Invalid schedule parameter"
  ELSE IF ~(Le(Zero, a.warmup) /\ Lt(a.warmup, One)) /\ ~(a.warmup = OfInt(NoWarmup))
       THEN "Invalid warmup"
  ELSE IF ~(Le(Zero, a.b1) /\ Lt(a.b1, One)) THEN "Invalid b1 parameter"
  ELSE IF ~(Le(Zero, a.b2) /\ Lt(a.b2, One)) THEN "Invalid b2 parameter"
  ELSE IF ~Ge(a.e, Zero) THEN "Invalid epsilon value"
  ELSE ""

\* Optimizer.__init__ / add_param_group: every group gets the defaults for the
\* keys it does not set itself (here a group may set weight_decay_rate).
MakeGroup(g, a) ==
  [params |-> g.params,
   lr |-> a.lr, schedule |-> a.schedule, warmup |-> a.warmup, t_total |-> a.t_total,
   b1 |-> a.b1, b2 |-> a.b2, e |-> a.e,
   weight_decay_rate |-> IF g.weight_decay_rate = None THEN a.weight_decay_rate
                         ELSE g.weight_decay_rate,
   max_grad_norm |-> a.max_grad_norm, cycle_step |-> a.cycle_step]

BERTAdam__init__(params, a) ==
  IF InvalidArgument(a) # ""
  THEN [err |-> "ValueError", msg |-> InvalidArgument(a), param_groups |-> <<>>]
  ELSE [err |-> "", msg |-> "",
        param_groups |-> [i \in 1..Len(params) |-> MakeGroup(params[i], a)]]

(***************************************************************************)
(* BERTAdam.step                                                           *)
(***************************************************************************)
ConstantRate == -1

\* torch.nn.utils.clip_grad_norm_ on one one-element tensor: the gradient is
\* scaled in place to the norm max_norm when its norm is larger (the 1e-6 the
\* library adds to the norm in the quotient is left out).
clip_grad_norm_(g, max_norm) ==
  IF Gt(AbsQ(g), max_norm) THEN Mul(g, Div(max_norm, AbsQ(g))) ELSE g

\* schedule_fct(x, group['warmup']) for the quotient x = step / t_total.
schedule_at(group, x) ==
  IF x.err # "" THEN x ELSE schedule_fct(group.schedule, x.val, group.warmup)

\* 1 - ((step % cycle_step) / cycle_step) for an integer cycle_step.
cycle_factor(step, cycle_step) ==
  IF cycle_step = 0 THEN Raise("ZeroDivisionError")
  ELSE Py(Sub(One, Q(PyMod(step, cycle_step), cycle_step)))

\* lr_scheduled with the cycle entered at step = cycle_step already.
lr_scheduled_cycle_early(group, step) ==
  IF group.cycle_step # None /\ step >= group.cycle_step[1]
  THEN PyMulLr(group.lr, cycle_factor(step, group.cycle_step[1]))
  ELSE IF group.t_total # OfInt(ConstantRate) /\ group.schedule # "warmup_fix"
  THEN PyMulLr(group.lr, schedule_at(group, PyDiv(OfInt(step), group.t_total)))
  ELSE IF group.schedule = "warmup_fix"
  THEN PyMulLr(group.lr,
         schedule_fct(group.schedule, OfInt(step), Mul(group.warmup, group.t_total)))
  ELSE Py(group.lr)

\* lr_scheduled for a parameter whose counter is step (an integer).
lr_scheduled(group, step) ==
  IF group.cycle_step # None /\ step > group.cycle_step[1]
  THEN PyMulLr(group.lr, cycle_factor(step, group.cycle_step[1]))
  ELSE IF group.t_total # OfInt(ConstantRate) /\ group.schedule # "warmup_fix"
  THEN PyMulLr(group.lr, schedule_at(group, PyDiv(OfInt(step), group.t_total)))
  ELSE IF group.schedule = "warmup_fix"
  THEN PyMulLr(group.lr,
         schedule_fct(group.schedule, OfInt(step), Mul(group.warmup, group.t_total)))
  ELSE Py(group.lr)

Dense(v) == <<[is_sparse |-> FALSE, val |-> v]>>
Sparse(v) == <<[is_sparse |-> TRUE, val |-> v]>>

\* self.state[p], initialized when it has no entry.
state_of(st) ==
  IF Len(st) = 0 THEN [step |-> 0, next_m |-> Zero, next_v |-> Zero] ELSE st[1]

\* The gradient after the clipping.
clipped(group, g) ==
  IF Gt(group.max_grad_norm, Zero) THEN clip_grad_norm_(g, group.max_grad_norm) ELSE g

\* The state s0 with its moments decayed and the gradient g1 added.
moments(group, s0, g1) ==
  [step |-> s0.step,
   next_m |-> Add(Mul(s0.next_m, group.b1), Mul(Sub(One, group.b1), g1)),
   next_v |-> Add(Mul(s0.next_v, group.b2), Mul(Sub(One, group.b2), Mul(g1, g1)))]

\* update, with the weight decay added.
update_of(group, d, m) ==
  IF Gt(group.weight_decay_rate, Zero)
  THEN Add(Div(m.next_m, Add(Sqrt(m.next_v), group.e)), Mul(group.weight_decay_rate, d))
  ELSE Div(m.next_m, Add(Sqrt(m.next_v), group.e))

\* The exception the computation of update_with_lr raises ("": none): the one
\* of lr_scheduled, or TypeError for None * update.
lr_error(lr) ==
  IF lr.err # "" THEN lr.err ELSE IF lr.val = None THEN "TypeError" ELSE ""

\* p.data.add_(-update_with_lr) and state['step'] += 1. An exception raised
\* before them leaves the moments and the clipped gradient updated, the value
\* and the counter as they were.
apply_update(d, g1, m, update, lr) ==
  [data |-> IF lr_error(lr) # "" THEN d ELSE Sub(d, Mul(lr.val, update)),
   grad |-> Dense(g1),
   state |-> <<[m EXCEPT !.step = IF lr_error(lr) # "" THEN @ ELSE @ + 1]>>,
   lr |-> lr,
   err |-> lr_error(lr)]

update_with(group, d, g1, m) ==
  apply_update(d, g1, m, update_of(group, d, m), lr_scheduled(group, m.step))

\* The body of the loop for a parameter whose gradient is dense: d is p.data,
\* g the gradient's value, st self.state[p].
update_param(group, d, g, st) ==
  update_with(group, d, clipped(group, g), moments(group, state_of(st), clipped(group, g)))

NotComputed == Raise("not computed")

\* loop_body with the state initialized before the gradient is looked at.
loop_body_init_first(group, d, g, st) ==
  IF Len(g) = 0
  THEN [data |-> d, grad |-> g, state |-> <<state_of(st)>>, lr |-> NotComputed, err |-> ""]
  ELSE IF g[1].is_sparse
  THEN [data |-> d, grad |-> g, state |-> st, lr |-> NotComputed, err |-> "RuntimeError"]
  ELSE update_param(group, d, g[1].val, st)

\* The body of the loop over group['params'] for one parameter.
loop_body(group, d, g, st) ==
  IF Len(g) = 0
  THEN [data |-> d, grad |-> g, state |-> st, lr |-> NotComputed, err |-> ""]
  ELSE IF g[1].is_sparse
  THEN [data |-> d, grad |-> g, state |-> st, lr |-> NotComputed, err |-> "RuntimeError"]
  ELSE update_param(group, d, g[1].val, st)

\* The parameters in the order of the two loops, each with its group's index.
RECURSIVE Flatten(_, _)
Flatten(groups, i) ==
  IF i > Len(groups) THEN <<>>
  ELSE [k \in 1..Len(groups[i].params) |-> <<i, groups[i].params[k]>>]
       \o Flatten(groups, i + 1)

Order(groups) == Flatten(groups, 1)

Params(groups) == {Order(groups)[k][2] : k \in 1..Len(Order(groups))}

\* acc with parameter p's outcome r written into it.
merge(acc, p, r) ==
  [data |-> [acc.data EXCEPT ![p] = r.data],
   grad |-> [acc.grad EXCEPT ![p] = r.grad],
   state |-> [acc.state EXCEPT ![p] = r.state],
   lr |-> [acc.lr EXCEPT ![p] = r.lr],
   err |-> r.err]

visit(group, p, acc) ==
  merge(acc, p, loop_body(group, acc.data[p], acc.grad[p], acc.state[p]))

\* The two loops over the parameters order[k..]; the first exception ends them.
RECURSIVE Run(_, _, _, _)
Run(groups, order, k, acc) ==
  IF k > Len(order) \/ acc.err # "" THEN acc
  ELSE Run(groups, order, k + 1, visit(groups[order[k][1]], order[k][2], acc))

\* One call of step() with the gradients g (closure is None).
step(g) ==
  \E r \in {Run(param_groups, Order(param_groups), 1,
                [data |-> data, grad |-> g, state |-> state,
                 lr |-> [p \in DOMAIN data |-> NotComputed], err |-> ""])} :
      /\ data' = r.data
      /\ grad' = r.grad
      /\ state' = r.state
      /\ lr_used' = r.lr
      /\ result' = IF r.err = "" THEN "ok" ELSE r.err
      /\ calls' = calls + 1
      /\ seen_grad' = [p \in DOMAIN data |->
                         IF r.err = "" /\ Len(g[p]) # 0 THEN seen_grad[p] + 1
                         ELSE seen_grad[p]]
      /\ any_failed' = (any_failed \/ r.err # "")
      /\ UNCHANGED <<param_groups, ctor, factory>>

(***************************************************************************)
(* Spec: an optimizer over three parameters in two groups, as               *)
(* get_optimization lays them out (the second group sets weight_decay_rate  *)
(* to 0.0), and any sequence of calls of step().                            *)
(***************************************************************************)
MaxCalls == 2

Args(lr, warmup, t_total, schedule, b1, b2, e, wd, cycle_step, mgn) ==
  [lr |-> lr, warmup |-> warmup, t_total |-> t_total, schedule |-> schedule,
   b1 |-> b1, b2 |-> b2, e |-> e, weight_decay_rate |-> wd,
   cycle_step |-> cycle_step, max_grad_norm |-> mgn]

Layout ==
  << [params |-> <<1, 2>>, weight_decay_rate |-> None],
     [params |-> <<3>>, weight_decay_rate |-> Zero] >>

ArgsMain ==
  { Args(lr, OfInt(NoWarmup), t, "warmup_linear", Q(1, 2), Zero, e, Q(1, 2), None, mgn) :
      lr \in {None, One}, t \in {OfInt(ConstantRate), OfInt(2)},
      e \in {Zero, One}, mgn \in {OfInt(-1), One} }

GradsMain == {None, Dense(OfInt(-2)), Sparse(OfInt(-2))}

\* The state after BERTAdam(params, ...) has returned.
Constructed(params, a, d0) ==
  \E c \in {BERTAdam__init__(params, a)} :
      /\ c.err = ""
      /\ param_groups = c.param_groups
      /\ data = [p \in Params(c.param_groups) |-> d0]
      /\ grad = [p \in Params(c.param_groups) |-> None]
      /\ state = [p \in Params(c.param_groups) |-> <<>>]
      /\ lr_used = [p \in Params(c.param_groups) |-> NotComputed]
      /\ seen_grad = [p \in Params(c.param_groups) |-> 0]
      /\ any_failed = FALSE
      /\ calls = 0
      /\ result = "none"
      /\ ctor = None
      /\ factory = None

Init == \E a \in ArgsMain : Constructed(Layout, a, One)

Next ==
  /\ calls < MaxCalls
  /\ \E g \in [DOMAIN data -> GradsMain] : step(g)

Spec == Init /\ [][Next]_vars

(***************************************************************************)
(* Claims about the update step, under Spec                                *)
(***************************************************************************)
HasState(p) == Len(state[p]) # 0
StepOf(p) == IF HasState(p) THEN state[p][1].step ELSE 0
HadGrad(p) == Len(grad[p]) # 0
GroupOf(p) == param_groups[CHOOSE i \in 1..Len(param_groups) :
                             \E k \in 1..Len(param_groups[i].params) :
                               param_groups[i].params[k] = p]
IsCall == calls' = calls + 1

\* C1: every parameter's state.step equals the number of completed update
\* calls in which it had a non-absent gradient.
C1_StepCountsCompletedCalls == \A p \in DOMAIN state : StepOf(p) = seen_grad[p]

\* C2: an update call that raises the sparse-gradient error leaves the value
\* and the optimizer state of every parameter as they were before the call.
C2_SparseFailureLeavesStateUnmodified ==
  [][(IsCall /\ result' = "RuntimeError") => (data' = data /\ state' = state)]_vars

\* C9, the invariant part: when no call has failed, a parameter has optimizer
\* state iff it had a gradient in at least one call.
C9_StateIffGrad ==
  ~any_failed => \A p \in DOMAIN state : HasState(p) <=> seen_grad[p] > 0

\* C9: an update call leaves a parameter whose gradient is absent untouched
\* (value, no state created, an existing state unchanged); after successful
\* calls only, a parameter has state iff it had a gradient in one of them; the
\* state is created from step 0 and zero moments by the first such call and a
\* later call never resets it.
C9_AbsentGradUntouched ==
  [][IsCall =>
       /\ \A p \in DOMAIN state :
            /\ ~HadGrad(p)' => (data'[p] = data[p] /\ state'[p] = state[p])
            /\ (~HasState(p) /\ HadGrad(p)' /\ result' = "ok") =>
                 state'[p] = <<[step |-> 1,
                                next_m |-> Mul(Sub(One, GroupOf(p).b1), grad'[p][1].val),
                                next_v |-> Mul(Sub(One, GroupOf(p).b2),
                                               Mul(grad'[p][1].val, grad'[p][1].val))]>>
            /\ HasState(p) => (HasState(p)' /\ StepOf(p)' >= StepOf(p))
       /\ C9_StateIffGrad']_vars

\* A second successful call in which parameter 1 still has no gradient and no
\* state, parameter 2 is updated again and parameter 3 for the first time.
C9_Witness ==
  /\ calls = 2 /\ ~any_failed
  /\ ~HadGrad(1) /\ ~HasState(1) /\ data[1] = One
  /\ HadGrad(2) /\ StepOf(2) = 2
  /\ ~HadGrad(3) /\ StepOf(3) = 1

(***************************************************************************)
(* SpecSched: an optimizer over one parameter, with every schedule, with   *)
(* and without warmup, t_total and cycle_step, and the gradients 0 and -2. *)
(***************************************************************************)
MaxCallsSched == 3

LayoutOne == << [params |-> <<1>>, weight_decay_rate |-> None] >>

ArgsSched ==
  { Args(lr, w, t, s, Q(1, 2), Zero, e, wd, c, mgn) :
      lr \in {None, One}, w \in {OfInt(NoWarmup), Zero, Q(1, 2)},
      t \in {OfInt(ConstantRate), One, OfInt(2)}, s \in SCHEDULES,
      e \in {Zero, One}, wd \in {Zero, Q(1, 2)}, c \in {None, OfInt(2)},
      mgn \in {OfInt(-1), One} }

GradsSched == {Dense(Zero), Dense(OfInt(-2))}

InitSched == \E a \in ArgsSched : Constructed(LayoutOne, a, One)

NextSched ==
  /\ calls < MaxCallsSched
  /\ \E g \in [DOMAIN data -> GradsSched] : step(g)

SpecSched == InitSched /\ [][NextSched]_vars

(***************************************************************************)
(* Claims about the learning rate, under SpecSched                         *)
(***************************************************************************)
\* The last call computed a learning rate for p and raised nothing doing so.
LrComputed(p) == lr_used[p].err = ""

\* C4: with t_total = -1 and cycle_step unset, the effective learning rate
\* of every update equals the group's lr, whatever the schedule.
C4_ConstantRateWithoutTotal ==
  \A p \in DOMAIN state :
    (GroupOf(p).t_total = OfInt(ConstantRate) /\ GroupOf(p).cycle_step = None
       /\ LrComputed(p))
    => lr_used[p].val = GroupOf(p).lr

\* Rule (2) of step() with warmup_constant or warmup_linear, within the
\* domain the claim names: warmup in [0,1), t_total > 0.
UsesUnitSchedule(p) ==
  /\ GroupOf(p).schedule \in {"warmup_constant", "warmup_linear"}
  /\ GroupOf(p).cycle_step = None
  /\ Gt(GroupOf(p).t_total, Zero)
  /\ Le(Zero, GroupOf(p).warmup) /\ Lt(GroupOf(p).warmup, One)
  /\ GroupOf(p).lr # None

InUnit(x) == Le(Zero, x) /\ Le(x, One)

\* C5: warmup_constant and warmup_linear return a multiplier in [0,1] for
\* every progress value step / t_total that step() passes to them, so the
\* effective learning rate lies between 0 and lr.
C5_MultiplierInUnitInterval ==
  \A p \in DOMAIN state :
    (UsesUnitSchedule(p) /\ result = "ok" /\ HadGrad(p))
    => /\ InUnit(schedule_fct(GroupOf(p).schedule,
                              Div(OfInt(StepOf(p) - 1), GroupOf(p).t_total),
                              GroupOf(p).warmup).val)
       /\ Le(Zero, lr_used[p].val) /\ Le(lr_used[p].val, GroupOf(p).lr)

\* Rule (3) of step(): the schedule is warmup_fix and cycle_step is unset.
UsesWarmupFix(p) ==
  GroupOf(p).schedule = "warmup_fix" /\ GroupOf(p).cycle_step = None

WarmupStep(p) == Mul(GroupOf(p).warmup, GroupOf(p).t_total)

\* C8: over the steps at which step() has called warmup_fix(step, warmup *
\* t_total), the multiplier is non-decreasing in step and is 1.0 at every
\* step >= warmup_step.
C8_WarmupFixMonotoneAndClamped ==
  \A p \in DOMAIN state :
    UsesWarmupFix(p) =>
      \A s2 \in 0..(StepOf(p) - 1) :
        /\ \A s1 \in 0..s2 :
             Le(warmup_fix(OfInt(s1), WarmupStep(p)).val,
                warmup_fix(OfInt(s2), WarmupStep(p)).val)
        /\ Ge(OfInt(s2), WarmupStep(p)) => warmup_fix(OfInt(s2), WarmupStep(p)) = Py(One)

\* An active warmup: cycle_step unset, t_total > 0, warmup in (0,1) and one
\* of the schedules warmup_constant, warmup_linear, warmup_fix.
ActiveWarmup(p) ==
  /\ GroupOf(p).cycle_step = None
  /\ Gt(GroupOf(p).t_total, Zero)
  /\ Lt(Zero, GroupOf(p).warmup) /\ Lt(GroupOf(p).warmup, One)
  /\ GroupOf(p).schedule \in {"warmup_constant", "warmup_linear", "warmup_fix"}

\* What the update at state.step = 0 does according to C10: the learning
\* rate is 0, the value stays, the moments take the gradient in, step is 1.
FirstUpdateKeepsValue(p) ==
  /\ lr_used'[p] = Py(Zero)
  /\ data'[p] = data[p]
  /\ result' = "ok"
  /\ state'[p] =
       <<[step |-> 1,
          next_m |-> Add(Mul(state_of(state[p]).next_m, GroupOf(p).b1),
                         Mul(Sub(One, GroupOf(p).b1), grad'[p][1].val)),
          next_v |-> Add(Mul(state_of(state[p]).next_v, GroupOf(p).b2),
                         Mul(Sub(One, GroupOf(p).b2),
                             Mul(grad'[p][1].val, grad'[p][1].val)))]>>

MaxCallsCycle == 151

ArgsCycle ==
  { Args(lr, w, t, s, Zero, Zero, One, Zero, c, OfInt(-1)) :
      lr \in {One, OfInt(2)}, w \in {OfInt(NoWarmup), Q(1, 2)},
      t \in {OfInt(ConstantRate), OfInt(200)}, s \in SCHEDULES,
      c \in {None, OfInt(3), OfInt(100)} }

GradsCycle == {Dense(One)}

InitCycle == \E a \in ArgsCycle : Constructed(LayoutOne, a, One)

NextCycle ==
  /\ calls < MaxCallsCycle
  /\ \E g \in [DOMAIN data -> GradsCycle] : step(g)

SpecCycle == InitCycle /\ [][NextCycle]_vars

\* The learning rate C7 gives for group g at the counter value s.
C7_Rate(g, s) ==
  IF g.cycle_step # None /\ s > g.cycle_step[1]
    THEN Py(Mul(g.lr, Sub(One, Q(s % g.cycle_step[1], g.cycle_step[1]))))
  ELSE IF g.t_total # OfInt(-1) /\ g.schedule # "warmup_fix"
    THEN PyMulLr(g.lr, schedule_fct(g.schedule, Div(OfInt(s), g.t_total), g.warmup))
  ELSE IF g.schedule = "warmup_fix"
    THEN PyMulLr(g.lr, warmup_fix(OfInt(s), Mul(g.warmup, g.t_total)))
  ELSE Py(g.lr)

ArgsCtor ==
  { Args(lr, w, OfInt(ConstantRate), s, b1, b2, e, Q(1, 100), None, One) :
      lr \in {None, OfInt(-1), Zero, One, NaN},
      w \in {OfInt(NoWarmup), Q(-1, 2), Zero, Q(1, 2), One, Q(3, 2)},
      s \in SCHEDULES \cup {"bogus"},
      b1 \in {Q(-1, 10), Zero, Q(9, 10), One},
      b2 \in {Q(-1, 10), Zero, Q(999, 1000), One},
      e \in {Q(-1, 1000000), Zero, Q(1, 1000000)} }

InitCtor ==
  /\ ctor \in {[args |-> a, called |-> FALSE, err |-> "", msg |-> ""] : a \in ArgsCtor}
  /\ param_groups = <<>>
  /\ data = [p \in Params(Layout) |-> One]
  /\ grad = [p \in Params(Layout) |-> None]
  /\ state = [p \in Params(Layout) |-> <<>>]
  /\ lr_used = [p \in Params(Layout) |-> NotComputed]
  /\ seen_grad = [p \in Params(Layout) |-> 0]
  /\ any_failed = FALSE
  /\ calls = 0
  /\ result = "none"
  /\ factory = None

\* optimizer = BERTAdam(Layout, **ctor.args): an exception leaves no optimizer.
construct ==
  /\ ~ctor.called
  /\ \E c \in {BERTAdam__init__(Layout, ctor.args)} :
       /\ ctor' = [ctor EXCEPT !.called = TRUE, !.err = c.err, !.msg = c.msg]
       /\ param_groups' = c.param_groups
  /\ UNCHANGED <<data, grad, state, calls, result, lr_used, seen_grad, any_failed, factory>>

NextCtor == construct

SpecCtor == InitCtor /\ [][NextCtor]_vars

InRange01(x) == Le(Zero, x) /\ Lt(x, One)

\* The arguments C3 says construction fails for.
C3_OutOfRange(a) ==
  \/ a.lr # None /\ ~Ge(a.lr, Zero)
  \/ a.schedule \notin {"warmup_cosine", "warmup_constant", "warmup_linear", "warmup_fix"}
  \/ ~InRange01(a.warmup) /\ a.warmup # OfInt(-1)
  \/ ~InRange01(a.b1)
  \/ ~InRange01(a.b2)
  \/ ~Ge(a.e, Zero)

\* C3: construction fails with the invalid-argument error, creating no
\* optimizer, exactly when lr, schedule, warmup, b1, b2 or e is out of range;
\* it fails for lr = -1, b1 = 1.0, b2 = -0.1, e = -1e-6, schedule = "bogus"
\* and warmup = 1.5, succeeds for warmup = -1 and for lr unset, and an
\* optimizer that is created holds the arguments as given.
C3_ConstructionValidates ==
  ctor.called =>
    /\ ctor.err = "ValueError" <=> C3_OutOfRange(ctor.args)
    /\ ctor.err \in {"", "ValueError"}
    /\ ctor.err = "ValueError" => param_groups = <<>>
    /\ (\/ ctor.args.lr = OfInt(-1) \/ ctor.args.b1 = One \/ ctor.args.b2 = Q(-1, 10)
        \/ ctor.args.e = Q(-1, 1000000) \/ ctor.args.schedule = "bogus"
        \/ ctor.args.warmup = Q(3, 2)) => ctor.err = "ValueError"
    /\ ctor.err = "" =>
         /\ Len(param_groups) = Len(Layout)
         /\ \A i \in 1..Len(param_groups) :
              /\ param_groups[i].lr = ctor.args.lr
              /\ param_groups[i].schedule = ctor.args.schedule
              /\ param_groups[i].warmup = ctor.args.warmup
              /\ param_groups[i].b1 = ctor.args.b1
              /\ param_groups[i].b2 = ctor.args.b2
              /\ param_groups[i].e = ctor.args.e

\* Construction has succeeded with lr unset and warmup = -1.
C3_Witness ==
  /\ ctor.called /\ ctor.err = ""
  /\ ctor.args.lr = None /\ ctor.args.warmup = OfInt(-1)
  /\ Len(param_groups) = 2

(***************************************************************************)
(* get_optimization.  A parameter name is a sequence of fragments, the     *)
(* dots among them; no fragment overlaps another, so that 'nd in n' is the *)
(* search for a contiguous run of fragments.                               *)
(***************************************************************************)
\* pat in n, for strings.
Contains(n, pat) ==
  \E i \in 0..(Len(n) - Len(pat)) : \A k \in 1..Len(pat) : n[i + k] = pat[k]

no_decay_without_layernorm_weight == { <<"bias">>, <<"LayerNorm", ".", "bias">> }

no_decay == { <<"bias">>, <<"LayerNorm", ".", "bias">>, <<"LayerNorm", ".", "weight">> }

\* any([nd in n for nd in no_decay])
any_no_decay(n) == \E nd \in no_decay : Contains(n, nd)

\* The hack that removes the pooler: named is list(model.named_parameters()),
\* a list of <<name, parameter>>.
param_optimizer(named, opt_pooler) ==
  IF opt_pooler = FALSE
  THEN SelectSeq(named, LAMBDA n : ~Contains(n[1], <<"pooler">>))
  ELSE named

\* [p for n, p in param_optimizer if not any(...)] when decay is TRUE,
\* [p for n, p in param_optimizer if any(...)] when it is FALSE.
params_where(named, decay) ==
  [k \in 1..Len(SelectSeq(named, LAMBDA n : any_no_decay(n[1]) # decay)) |->
     SelectSeq(named, LAMBDA n : any_no_decay(n[1]) # decay)[k][2]]

optimizer_parameters(named, weight_decay_rate) ==
  << [params |-> params_where(named, TRUE), weight_decay_rate |-> weight_decay_rate],
     [params |-> params_where(named, FALSE), weight_decay_rate |-> Zero] >>

\* The call of BERTAdam at the end of get_optimization.
factory_args(a) ==
  Args(a.learning_rate, a.warmup_rate, a.total_steps, a.schedule, Q(9, 10), Q(999, 1000),
       Q(1, 1000000), a.weight_decay_rate, None, a.max_grad_norm)

\* get_optimization(model, float16, ...): a.apex says whether apex can be
\* imported. The reduced-precision optimizer is the library's; it is given
\* the same two groups.
get_optimization(a) ==
  IF ~(Le(Zero, a.warmup_rate) /\ Le(a.warmup_rate, One))
  THEN [err |-> "AssertionError", optimizer |-> "", groups |-> <<>>, param_groups |-> <<>>]
  ELSE IF a.float16 /\ ~a.apex
  THEN [err |-> "ImportError", optimizer |-> "", groups |-> <<>>, param_groups |-> <<>>]
  ELSE IF a.float16
  THEN [err |-> "", optimizer |-> "FP16_Optimizer",
        groups |-> optimizer_parameters(param_optimizer(a.named, a.opt_pooler),
                                        a.weight_decay_rate),
        param_groups |-> <<>>]
  ELSE IF BERTAdam__init__(<<>>, factory_args(a)).err # ""
  THEN [err |-> "ValueError", optimizer |-> "", groups |-> <<>>, param_groups |-> <<>>]
  ELSE [err |-> "", optimizer |-> "BERTAdam",
        groups |-> optimizer_parameters(param_optimizer(a.named, a.opt_pooler),
                                        a.weight_decay_rate),
        param_groups |->
          BERTAdam__init__(optimizer_parameters(param_optimizer(a.named, a.opt_pooler),
                                                a.weight_decay_rate),
                           factory_args(a)).param_groups]

(***************************************************************************)
(* SpecFactory: get_optimization called once on a model of NParamsFactory  *)
(* named parameters.                                                       *)
(***************************************************************************)
NParamsFactory == 2

Names ==
  { <<"bert", ".", "dense", ".", "weight">>,
    <<"bert", ".", "dense", ".", "bias">>,
    <<"bert", ".", "LayerNorm", ".", "weight">>,
    <<"bert", ".", "LayerNorm", ".", "bias">>,
    <<"bert", ".", "pooler", ".", "dense", ".", "weight">>,
    <<"bert", ".", "pooler", ".", "dense", ".", "bias">>,
    <<"bert", ".", "LayerNorm", "_", "weight">>,
    <<"classifier", ".", "weight">> }

\* model.named_parameters(): distinct names, the k-th parameter being k.
NamedParameters ==
  { [k \in 1..NParamsFactory |-> <<f[k], k>>] :
      f \in {h \in [1..NParamsFactory -> Names] :
               \A i, j \in 1..NParamsFactory : i # j => h[i] # h[j]} }

ArgsFactory ==
  { [named |-> n, float16 |-> f16, apex |-> ap, learning_rate |-> One,
     total_steps |-> OfInt(2), schedule |-> "warmup_linear", warmup_rate |-> w,
     weight_decay_rate |-> Q(1, 100), max_grad_norm |-> One, opt_pooler |-> op] :
      n \in NamedParameters, f16 \in BOOLEAN, ap \in BOOLEAN,
      w \in {Zero, Q(1, 10), One, Q(3, 2)}, op \in BOOLEAN }

InitFactory ==
  /\ factory \in {[args |-> a, called |-> FALSE, err |-> "", optimizer |-> "",
                   groups |-> <<>>] : a \in ArgsFactory}
  /\ param_groups = <<>>
  /\ data = [p \in 1..NParamsFactory |-> One]
  /\ grad = [p \in 1..NParamsFactory |-> None]
  /\ state = [p \in 1..NParamsFactory |-> <<>>]
  /\ lr_used = [p \in 1..NParamsFactory |-> NotComputed]
  /\ seen_grad = [p \in 1..NParamsFactory |-> 0]
  /\ any_failed = FALSE
  /\ calls = 0
  /\ result = "none"
  /\ ctor = None

\* optimizer = get_optimization(model, ...)
call_get_optimization ==
  /\ ~factory.called
  /\ \E r \in {get_optimization(factory.args)} :
       /\ factory' = [factory EXCEPT !.called = TRUE, !.err = r.err,
                                     !.optimizer = r.optimizer, !.groups = r.groups]
       /\ param_groups' = r.param_groups
  /\ UNCHANGED <<data, grad, state, calls, result, lr_used, seen_grad, any_failed, ctor>>

NextFactory == call_get_optimization

SpecFactory == InitFactory /\ [][NextFactory]_vars

\* The name of parameter p of the model get_optimization was called on.
NameOf(p) == factory.args.named[p][1]

\* How many times parameter p occurs in the i-th group.
Occurrences(i, p) ==
  Cardinality({k \in 1..Len(factory.groups[i].params) : factory.groups[i].params[k] = p})

C6_NoDecayName(n) ==
  \/ Contains(n, <<"bias">>)
  \/ Contains(n, <<"LayerNorm", ".", "bias">>)
  \/ Contains(n, <<"LayerNorm", ".", "weight">>)

C6_Selected(n) == factory.args.opt_pooler \/ ~Contains(n, <<"pooler">>)

\* C6: get_optimization produces exactly two groups; a selected parameter is
\* in the second iff its name contains 'bias', 'LayerNorm.bias' or
\* 'LayerNorm.weight' and in the first otherwise, and in exactly one of them;
\* a parameter is selected iff opt_pooler is True or its name does not
\* contain 'pooler'; the second group's weight_decay_rate is 0.0 and the
\* first's is the argument.
C6_TwoGroupsByName ==
  (factory.called /\ factory.err = "") =>
    /\ Len(factory.groups) = 2
    /\ \A p \in 1..Len(factory.args.named) :
         /\ Occurrences(2, p) =
              (IF C6_Selected(NameOf(p)) /\ C6_NoDecayName(NameOf(p)) THEN 1 ELSE 0)
         /\ Occurrences(1, p) =
              (IF C6_Selected(NameOf(p)) /\ ~C6_NoDecayName(NameOf(p)) THEN 1 ELSE 0)
    /\ factory.groups[2].weight_decay_rate = Zero
    /\ factory.groups[1].weight_decay_rate = factory.args.weight_decay_rate
    /\ factory.optimizer = "BERTAdam" =>
         /\ Len(param_groups) = 2
         /\ \A i \in 1..2 :
              /\ param_groups[i].params = factory.groups[i].params
              /\ param_groups[i].weight_decay_rate = factory.groups[i].weight_decay_rate

\* BERTAdam built with opt_pooler False on a pooler weight and a LayerNorm
\* weight: the first is in no group, the second in the no-decay group.
C6_Witness ==
  /\ factory.called /\ factory.err = "" /\ factory.optimizer = "BERTAdam"
  /\ ~factory.args.opt_pooler
  /\ NameOf(1) = <<"bert", ".", "pooler", ".", "dense", ".", "weight">>
  /\ NameOf(2) = <<"bert", ".", "LayerNorm", ".", "weight">>
  /\ factory.groups[1].params = <<>> /\ factory.groups[2].params = <<2>>

====
